---- MODULE Spec2Model ----
(***************************************************************************)
(* CBS-TA on a 4-connected grid (example/cbs_ta.cpp).                      *)
(*                                                                         *)
(* The Environment class of cbs_ta.cpp is modelled from its source.  The   *)
(* engines it plugs into (grid heuristic, minimum-cost assignment,         *)
(* next-best assignment, low-level A*, high-level driver) live in headers  *)
(* that cbs_ta.cpp only includes; they are modelled from spec.md, 4.1-4.6. *)
(***************************************************************************)
EXTENDS Integers, Sequences, FiniteSets, TLC

(* ------------------------------ bounds --------------------------------- *)
\* low-level searches give up beyond this time step
MaxTime == 4
\* high-level node ids are handed out below this number
MaxNodes == 12
\* largest value of the option --maxTaskAssignments that is tried
MaxBudget == 1
\* largest value of the option --groupSize that is tried
MaxGroupSize == 2
\* refused calls of nextTaskAssignment a caller makes before it gives up
MaxRefused == 2
\* latest time of the constraints and states passed to direct calls
MaxCallTime == 1

\* sentinel the grid heuristic reports for an unreachable goal (spec 4.1)
Infinity == 1000

VARIABLES
  m_dimx, m_dimy,          \* grid dimensions
  m_obstacles,             \* set of blocked cells
  startStates,             \* agent -> start cell (time 0)
  m_goals,                 \* goal index -> goal cell
  agentsPerGroup,          \* option --groupSize
  m_maxTaskAssignments,    \* option --maxTaskAssignments
  m_numTaskAssignments,    \* assignments drawn so far
  m_highLevelExpanded,     \* high-level expansions so far
  m_ctx,                   \* low-level context: agent, task, constraints, lastGoalConstraint
  m_cost,                  \* m_assignment: the cost matrix, (agent, goal) -> cost
  m_open,                  \* m_assignment: the heap of the next-best enumerator
  open,                    \* open list of the high-level search
  id,                      \* next high-level node id
  pc,                      \* position: "loop", "done", "capped" of search(); "enum"; "calls"
  success,                 \* result of search()
  solution,                \* joint plan returned by search()
  solutionTasks,           \* tasks of the node returned by search()
  drawsClosed,             \* the driver got an empty tasks vector back
  drawn,                   \* history: the assignments drawn, in order
  refused,                 \* history: number of nextTaskAssignment calls that returned at once
  call                     \* a direct call of a member function: its arguments and result

vars == << m_dimx, m_dimy, m_obstacles, startStates, m_goals, agentsPerGroup,
           m_maxTaskAssignments, m_numTaskAssignments, m_highLevelExpanded,
           m_ctx, m_cost, m_open, open, id, pc, success, solution,
           solutionTasks, drawsClosed, drawn, refused, call >>

instanceVars == << m_dimx, m_dimy, m_obstacles, startStates, m_goals,
                   agentsPerGroup, m_maxTaskAssignments, m_cost >>

(* ------------------------------ helpers -------------------------------- *)
SetMax(S) == CHOOSE m \in S : \A n \in S : n <= m

SetMin(S) == CHOOSE m \in S : \A n \in S : m <= n

Grid(dx, dy) == { <<x, y>> : x \in 0..(dx - 1), y \in 0..(dy - 1) }

Agents == DOMAIN startStates

GoalIdx == DOMAIN m_goals

\* no member function is called directly
NoCall == [op |-> "none"]

\* the empty Constraints object
NoConstraints == [vertexConstraints |-> {}, edgeConstraints |-> {}]

(* ------------------- Environment: low-level interface ------------------ *)
\* State(time, x, y)
State(t, x, y) == [time |-> t, x |-> x, y |-> y]

\* State::equalExceptTime
equalExceptTime(s1, s2) == s1.x = s2.x /\ s1.y = s2.y

VertexConstraint(t, x, y) == [time |-> t, x |-> x, y |-> y]

EdgeConstraint(t, x1, y1, x2, y2) ==
  [time |-> t, x1 |-> x1, y1 |-> y1, x2 |-> x2, y2 |-> y2]

\* Constraints::add : set union of both parts
ConstraintsAdd(c, other) ==
  [vertexConstraints |-> c.vertexConstraints \cup other.vertexConstraints,
   edgeConstraints   |-> c.edgeConstraints \cup other.edgeConstraints]

\* std::tie(...) < std::tie(...): lexicographic order of two tuples of the
\* same length
TieLess(a, b) ==
  \E k \in 1..Len(a) : a[k] < b[k] /\ \A j \in 1..(k - 1) : a[j] = b[j]

\* VertexConstraint::operator<
VertexConstraintLess(a, b) == TieLess(<<a.time, a.x, a.y>>, <<b.time, b.x, b.y>>)

\* EdgeConstraint::operator<
EdgeConstraintLess(a, b) ==
  TieLess(<<a.time, a.x1, a.y1, a.x2, a.y2>>, <<b.time, b.x1, b.y1, b.x2, b.y2>>)

\* operator< of the element type of a range of constraints
ConstraintLess(a, b) ==
  IF "x1" \in DOMAIN a THEN EdgeConstraintLess(a, b) ELSE VertexConstraintLess(a, b)

RECURSIVE set_intersection(_, _)
\* std::set_intersection over two ranges, each given as the sequence its
\* iterators walk through
set_intersection(r1, r2) ==
  IF r1 = << >> \/ r2 = << >> THEN << >>
  ELSE IF ConstraintLess(Head(r1), Head(r2)) THEN set_intersection(Tail(r1), r2)
  ELSE IF ConstraintLess(Head(r2), Head(r1)) THEN set_intersection(r1, Tail(r2))
  ELSE << Head(r1) >> \o set_intersection(Tail(r1), Tail(r2))

\* the orders in which the iterators of an unordered_set holding S can walk
\* through it
IterationOrders(S) ==
  { q \in [1..Cardinality(S) -> S] : \A i, j \in DOMAIN q : i # j => q[i] # q[j] }

\* Constraints::overlap; c and other give, for the vertex and the edge set
\* of each object, the order in which the set is iterated
overlap(c, other) ==
  \/ Len(set_intersection(c.vertexConstraints, other.vertexConstraints)) > 0
  \/ Len(set_intersection(c.edgeConstraints, other.edgeConstraints)) > 0

\* setLowLevelContext without the reset of m_lastGoalConstraint to -1: the
\* bound of the call before lives on
setLowLevelContext_NoReset(env, agentIdx, constraints, task) ==
  [m_agentIdx |-> agentIdx,
   m_task |-> task,
   m_constraints |-> constraints,
   m_lastGoalConstraint |->
     SetMax({env.m_lastGoalConstraint} \cup { vc.time : vc \in
        { c \in constraints.vertexConstraints :
            c.x = m_goals[task][1] /\ c.y = m_goals[task][2] } })]

\* Environment::setLowLevelContext.  env is the context left by the call
\* before; every field is overwritten.
setLowLevelContext(env, agentIdx, constraints, task) ==
  [m_agentIdx |-> agentIdx,
   m_task |-> task,
   m_constraints |-> constraints,
   m_lastGoalConstraint |->
     SetMax({-1} \cup { vc.time : vc \in
        { c \in constraints.vertexConstraints :
            c.x = m_goals[task][1] /\ c.y = m_goals[task][2] } })]

\* Environment::isSolution
isSolution(env, s) ==
  /\ s.x = m_goals[env.m_task][1]
  /\ s.y = m_goals[env.m_task][2]
  /\ s.time > env.m_lastGoalConstraint

\* Environment::stateValid
stateValid(env, s) ==
  /\ s.x >= 0
  /\ s.x < m_dimx
  /\ s.y >= 0
  /\ s.y < m_dimy
  /\ <<s.x, s.y>> \notin m_obstacles
  /\ VertexConstraint(s.time, s.x, s.y) \notin env.m_constraints.vertexConstraints

\* Environment::transitionValid
transitionValid(env, s1, s2) ==
  EdgeConstraint(s1.time, s1.x, s1.y, s2.x, s2.y)
     \notin env.m_constraints.edgeConstraints

\* Neighbor<State, Action, int>
Neighbor(s, a, c) == [state |-> s, action |-> a, cost |-> c]

\* the five candidate successors in the order getNeighbors tries them
Candidates(s) ==
  << Neighbor(State(s.time + 1, s.x,     s.y    ), "Wait",  1),
     Neighbor(State(s.time + 1, s.x - 1, s.y    ), "Left",  1),
     Neighbor(State(s.time + 1, s.x + 1, s.y    ), "Right", 1),
     Neighbor(State(s.time + 1, s.x,     s.y + 1), "Up",    1),
     Neighbor(State(s.time + 1, s.x,     s.y - 1), "Down",  1) >>

\* neighbors.clear()
Clear(neighbors) == << >>

\* getNeighbors on a list that keeps what it held before the call
getNeighborsInto_NoClear(env, s, neighbors) ==
  neighbors \o
    SelectSeq(Candidates(s),
              LAMBDA n : stateValid(env, n.state) /\ transitionValid(env, s, n.state))

\* Environment::getNeighbors(s, neighbors): the list passed in is cleared,
\* then each valid candidate is appended in turn
getNeighborsInto(env, s, neighbors) ==
  Clear(neighbors) \o
    SelectSeq(Candidates(s),
              LAMBDA n : stateValid(env, n.state) /\ transitionValid(env, s, n.state))

\* getNeighbors called with a fresh list
getNeighbors(env, s) == getNeighborsInto(env, s, << >>)

(* ------------------- Environment: high-level interface ----------------- *)
\* Environment::getState: the state of an agent at time t; an agent whose
\* plan has ended stays at its last state
getState(agentIdx, sol, t) ==
  IF t < Len(sol[agentIdx].states)
    THEN sol[agentIdx].states[t + 1]
    ELSE sol[agentIdx].states[Len(sol[agentIdx].states)]

NoConflict == [type |-> "None"]

\* pairs of agents (i, j), i < j, at the same cell at time t
VertexPairs(sol, t) ==
  { p \in (DOMAIN sol) \X (DOMAIN sol) :
      /\ p[1] < p[2]
      /\ equalExceptTime(getState(p[1], sol, t), getState(p[2], sol, t)) }

\* pairs of agents (i, j), i < j, swapping cells between t and t+1
EdgePairs(sol, t) ==
  { p \in (DOMAIN sol) \X (DOMAIN sol) :
      /\ p[1] < p[2]
      /\ equalExceptTime(getState(p[1], sol, t), getState(p[2], sol, t + 1))
      /\ equalExceptTime(getState(p[1], sol, t + 1), getState(p[2], sol, t)) }

\* the pair the nested loops (i ascending, then j ascending) meet first
FirstPair(S) ==
  CHOOSE p \in S : \A q \in S : p[1] < q[1] \/ (p[1] = q[1] /\ p[2] <= q[2])

\* what one pass of the body of the loop over t finds
ConflictAt(sol, t) ==
  IF VertexPairs(sol, t) # {}
    THEN LET p == FirstPair(VertexPairs(sol, t))
             s == getState(p[1], sol, t)
         IN [type |-> "Vertex", time |-> t, agent1 |-> p[1], agent2 |-> p[2],
             x1 |-> s.x, y1 |-> s.y]
  ELSE IF EdgePairs(sol, t) # {}
    THEN LET p == FirstPair(EdgePairs(sol, t))
             a == getState(p[1], sol, t)
             b == getState(p[1], sol, t + 1)
         IN [type |-> "Edge", time |-> t, agent1 |-> p[1], agent2 |-> p[2],
             x1 |-> a.x, y1 |-> a.y, x2 |-> b.x, y2 |-> b.y]
  ELSE NoConflict

\* max_t of getFirstConflict
MaxT(sol) == SetMax({0} \cup { Len(sol[i].states) - 1 : i \in DOMAIN sol })

\* the time steps the loop of getFirstConflict visits: t = 0 .. max_t - 1
ConflictTimes(sol) == 0..(MaxT(sol) - 1)

\* Environment::getFirstConflict: the conflict found, or NoConflict when the
\* function returns false
getFirstConflict(sol) ==
  LET ts == { t \in ConflictTimes(sol) : ConflictAt(sol, t).type # "None" }
  IN IF ts = {} THEN NoConflict ELSE ConflictAt(sol, SetMin(ts))

\* createConstraintsFromConflict that gives both agents of an edge conflict
\* the same, unreversed, edge constraint
createConstraintsFromConflict_SameEdge(conflict) ==
  IF conflict.type = "Vertex"
    THEN LET c1 == [vertexConstraints |->
                      {VertexConstraint(conflict.time, conflict.x1, conflict.y1)},
                    edgeConstraints |-> {}]
         IN [a \in {conflict.agent1, conflict.agent2} |-> c1]
  ELSE IF conflict.type = "Edge"
    THEN LET c1 == [vertexConstraints |-> {},
                    edgeConstraints |->
                      {EdgeConstraint(conflict.time, conflict.x1, conflict.y1,
                                      conflict.x2, conflict.y2)}]
         IN [a \in {conflict.agent1, conflict.agent2} |-> c1]
  ELSE << >>

\* Environment::createConstraintsFromConflict: agent -> Constraints
createConstraintsFromConflict(conflict) ==
  IF conflict.type = "Vertex"
    THEN LET c1 == [vertexConstraints |->
                      {VertexConstraint(conflict.time, conflict.x1, conflict.y1)},
                    edgeConstraints |-> {}]
         IN [a \in {conflict.agent1, conflict.agent2} |-> c1]
  ELSE IF conflict.type = "Edge"
    THEN LET c1 == [vertexConstraints |-> {},
                    edgeConstraints |->
                      {EdgeConstraint(conflict.time, conflict.x1, conflict.y1,
                                      conflict.x2, conflict.y2)}]
             c2 == [vertexConstraints |-> {},
                    edgeConstraints |->
                      {EdgeConstraint(conflict.time, conflict.x2, conflict.y2,
                                      conflict.x1, conflict.y1)}]
         IN [a \in {conflict.agent1, conflict.agent2} |->
               IF a = conflict.agent1 THEN c1 ELSE c2]
  ELSE << >>

(* --------------------- grid heuristic (spec 4.1) ----------------------- *)
\* free cells next to a cell
Adjacent(dx, dy, obs, c) ==
  { n \in Grid(dx, dy) \ obs :
      \/ (n[1] = c[1] /\ (n[2] = c[2] + 1 \/ n[2] = c[2] - 1))
      \/ (n[2] = c[2] /\ (n[1] = c[1] + 1 \/ n[1] = c[1] - 1)) }

RECURSIVE BfsLayer(_, _, _, _, _, _, _)
\* breadth-first search rooted at the goal: frontier holds the cells at
\* distance k, seen the cells at distance <= k
BfsLayer(dx, dy, obs, from, k, frontier, seen) ==
  IF from \in frontier THEN k
  ELSE LET next == (UNION { Adjacent(dx, dy, obs, c) : c \in frontier }) \ seen
       IN IF next = {} THEN Infinity
          ELSE BfsLayer(dx, dy, obs, from, k + 1, next, seen \cup next)

\* ShortestPathHeuristic::getValue(from, goal)
HeuristicValue(dx, dy, obs, from, goal) ==
  IF from \notin Grid(dx, dy) \ obs \/ goal \notin Grid(dx, dy) \ obs
    THEN Infinity
    ELSE BfsLayer(dx, dy, obs, from, 0, {goal}, {goal})

(* --------------------- Environment constructor ------------------------- *)
\* groupStart = floor(i / (float)agentsPerGroup) * agentsPerGroup
GroupStart(i, g) == (i \div g) * g

\* groupEnd = groupStart + agentsPerGroup
GroupEnd(i, g) == GroupStart(i, g) + g

\* the eligibility test with groupEnd >= j in place of groupEnd > j
EligiblePairs_EndInclusive(starts, goals, g) ==
  { p \in (DOMAIN starts) \X (DOMAIN goals) :
      GroupStart(p[1], g) <= p[2] /\ GroupEnd(p[1], g) >= p[2] }

\* the eligibility test with groupStart < j in place of groupStart <= j
EligiblePairs_StartExclusive(starts, goals, g) ==
  { p \in (DOMAIN starts) \X (DOMAIN goals) :
      GroupStart(p[1], g) < p[2] /\ GroupEnd(p[1], g) > p[2] }

\* the (agent, goal) pairs the constructor passes to m_assignment.setCost
EligiblePairs(starts, goals, g) ==
  { p \in (DOMAIN starts) \X (DOMAIN goals) :
      GroupStart(p[1], g) <= p[2] /\ GroupEnd(p[1], g) > p[2] }

\* the cost matrix after the two loops of the constructor
CostMatrix(dx, dy, obs, starts, goals, g) ==
  [ p \in EligiblePairs(starts, goals, g) |->
      HeuristicValue(dx, dy, obs, starts[p[1]], goals[p[2]]) ]

(* ------------------ minimum-cost assignment (spec 4.2) ----------------- *)
RECURSIVE SumOver(_, _)
\* sum of f over the finite set S
SumOver(f, S) ==
  IF S = {} THEN 0
  ELSE LET a == CHOOSE a \in S : TRUE
       IN f[a] + SumOver(f, S \ {a})

\* cost of the assignment A under the cost matrix C
AssignmentCost(C, A) == SumOver([a \in DOMAIN A |-> C[<<a, A[a]>>]], DOMAIN A)

\* a solver that also hands out assignments which leave agents without a goal
FeasibleAssignments_Partial(C, ags, gls, I, O) ==
  { A \in UNION { [S -> gls] : S \in (SUBSET ags) \ { {} } } :
      /\ \A a, b \in DOMAIN A : a # b => A[a] # A[b]
      /\ \A a \in DOMAIN A : <<a, A[a]>> \in DOMAIN C /\ <<a, A[a]>> \notin O
      /\ \A p \in I : p[1] \in DOMAIN A /\ A[p[1]] = p[2] }

\* full assignments agent -> goal that use eligible pairs only, contain every
\* pair of I and no pair of O
FeasibleAssignments(C, ags, gls, I, O) ==
  { A \in [ags -> gls] :
      /\ \A a, b \in ags : a # b => A[a] # A[b]
      /\ \A a \in ags : <<a, A[a]>> \in DOMAIN C /\ <<a, A[a]>> \notin O
      /\ \A p \in I : A[p[1]] = p[2] }

\* the minimum-cost assignments under (I, O); empty when infeasible
MinAssignments(C, ags, gls, I, O) ==
  LET F == FeasibleAssignments(C, ags, gls, I, O)
  IN { A \in F : \A B \in F : AssignmentCost(C, A) <= AssignmentCost(C, B) }

\* Node { I, O, assignment, cost } of the enumerator's heap
MurtyNode(C, I, O, A) ==
  [I |-> I, O |-> O, assignment |-> A, cost |-> AssignmentCost(C, A)]

\* the heaps m_assignment.solve() can leave: one node with I = O = {} holding
\* a minimum-cost assignment, or nothing when there is no assignment
SolveHeaps(C, ags, gls) ==
  LET M == MinAssignments(C, ags, gls, {}, {})
  IN IF M = {} THEN { {} } ELSE { { MurtyNode(C, {}, {}, A) } : A \in M }

(* --------------- next-best assignment enumerator (spec 4.3) ------------ *)
\* a heap that hands out any node
Cheapest_AnyNode(H) == H

\* the cheapest nodes of a heap
Cheapest(H) == { N \in H : \A M \in H : N.cost <= M.cost }

\* the agents of a node that I does not pin
FreeAgents(N) == (DOMAIN N.assignment) \ { p[1] : p \in N.I }

\* a child that forbids the pair of a but forces no earlier pair
ChildSpec_NoForcedPairs(N, a) ==
  [I |-> N.I, O |-> N.O \cup { <<a, N.assignment[a]>> }]

\* child of N for the free agent a: forbid the pair of a, force the pairs of
\* the free agents before a
ChildSpec(N, a) ==
  [I |-> N.I \cup { <<b, N.assignment[b]>> : b \in { c \in FreeAgents(N) : c < a } },
   O |-> N.O \cup { <<a, N.assignment[a]>> }]

\* the children of N for which the assignment solver finds a solution
FeasibleChildren(C, ags, gls, N) ==
  { c \in { ChildSpec(N, a) : a \in FreeAgents(N) } :
      MinAssignments(C, ags, gls, c.I, c.O) # {} }

\* the heaps that popping N and pushing its feasible children can leave (the
\* solver may return any minimum-cost assignment of a child)
HeapsAfterPop(C, ags, gls, H, N) ==
  LET FS == FeasibleChildren(C, ags, gls, N)
      sols == UNION { MinAssignments(C, ags, gls, c.I, c.O) : c \in FS }
      picks == { ch \in [FS -> sols] :
                   \A c \in FS : ch[c] \in MinAssignments(C, ags, gls, c.I, c.O) }
  IN { (H \ {N}) \cup { MurtyNode(C, c.I, c.O, ch[c]) : c \in FS } : ch \in picks }

\* nextSolution(): the possible results, each with the heap it leaves;
\* an empty solution signals exhaustion
nextSolution(C, ags, gls, H) ==
  IF H = {}
    THEN { [solution |-> << >>, cost |-> Infinity * Infinity, heap |-> H] }
    ELSE UNION { { [solution |-> N.assignment, cost |-> N.cost, heap |-> H2] :
                     H2 \in HeapsAfterPop(C, ags, gls, H, N) } : N \in Cheapest(H) }

\* cost of the assignment the next call of nextSolution returns
NextAssignmentCost(H) == (CHOOSE N \in Cheapest(H) : TRUE).cost

(* ------------------- Environment::nextTaskAssignment ------------------- *)
\* the refusal test at the top of nextTaskAssignment
BudgetExhausted(num, max) == num > max

\* the possible results of one call: the tasks vector handed back (empty
\* when nothing was drawn), the counter and the heap afterwards
nextTaskAssignment(C, ags, gls, num, max, H) ==
  IF BudgetExhausted(num, max)
    THEN { [tasks |-> << >>, cost |-> 0, num |-> num, heap |-> H, returnedEarly |-> TRUE] }
    ELSE { IF DOMAIN r.solution # {}
             THEN [tasks |-> r.solution, cost |-> r.cost, num |-> num + 1,
                   heap |-> r.heap, returnedEarly |-> FALSE]
             ELSE [tasks |-> << >>, cost |-> 0, num |-> num,
                   heap |-> r.heap, returnedEarly |-> FALSE]
           : r \in nextSolution(C, ags, gls, H) }

(* ------------------------ low-level A* (spec 4.4) ---------------------- *)
\* the states the search generates from the states of S
Successors(env, S) ==
  UNION { { getNeighbors(env, s)[k].state : k \in DOMAIN getNeighbors(env, s) } :
          s \in S }

RECURSIVE GoalTimeFrom(_, _, _)
\* the earliest time t..MaxTime at which the states of S, of time t, lead to
\* a goal state; -1 when the horizon is passed or no state is left
GoalTimeFrom(env, S, t) ==
  IF t > MaxTime \/ S = {} THEN -1
  ELSE IF \E s \in S : isSolution(env, s) THEN t
  ELSE GoalTimeFrom(env, Successors(env, S), t + 1)

\* the times up to the horizon at which the search first expands a goal state
GoalTimes(env, start) ==
  { GoalTimeFrom(env, { start }, 0) } \ { -1 }

\* Environment::admissibleHeuristic
admissibleHeuristic(env, s) ==
  HeuristicValue(m_dimx, m_dimy, m_obstacles, <<s.x, s.y>>, m_goals[env.m_task])

RECURSIVE Reach(_, _, _)
\* layers: layers[t + 1] holds the states of time t the search can reach, for
\* t = 0 .. T
Reach(env, layers, T) ==
  IF Len(layers) = T + 1 THEN layers
  ELSE Reach(env, Append(layers, Successors(env, layers[Len(layers)])), T)

RECURSIVE CanFinish(_, _, _)
\* the reachable states from which a goal state of the last layer can be
\* reached: back[k] holds those of the k-th time covered, the last layer first
\* cut down to its goal states
CanFinish(env, layers, back) ==
  IF Len(back) = Len(layers) THEN back
  ELSE LET t == Len(layers) - Len(back)
       IN CanFinish(env, layers,
             << { s \in layers[t] : Successors(env, {s}) \cap back[1] # {} } >> \o back)

\* the successor the search follows from s on its way to a goal state: of
\* the successors in later, lowest heuristic value first, then the order of
\* getNeighbors
Successor(env, s, later) ==
  LET nb == getNeighbors(env, s)
      ok == { k \in DOMAIN nb : nb[k].state \in later }
      k0 == CHOOSE k \in ok : \A j \in ok :
               \/ admissibleHeuristic(env, nb[k].state) < admissibleHeuristic(env, nb[j].state)
               \/ /\ admissibleHeuristic(env, nb[k].state) = admissibleHeuristic(env, nb[j].state)
                  /\ k <= j
  IN nb[k0].state

RECURSIVE PathFrom(_, _, _)
\* the state sequence that extends path to a goal state of the last layer
PathFrom(env, path, back) ==
  IF Len(path) = Len(back) THEN path
  ELSE PathFrom(env, Append(path, Successor(env, path[Len(path)], back[Len(path) + 1])),
                back)

\* PlanResult: states, cost (sum of the unit action costs) and fmin, the f
\* value g + h of the goal state at the moment it is expanded
PlanResult(env, states) ==
  [states |-> states,
   cost |-> Len(states) - 1,
   fmin |-> states[Len(states)].time + admissibleHeuristic(env, states[Len(states)])]

\* LowLevelSearch::search under the context env: the minimum-cost plan it
\* returns, or none when no goal state is found up to the horizon
LowLevelPlans(env, start) ==
  IF GoalTimes(env, start) = {} THEN {}
  ELSE LET T == SetMin(GoalTimes(env, start))
           layers == Reach(env, << { start } >>, T)
           back == CanFinish(env, layers,
                             << { s \in layers[T + 1] : isSolution(env, s) } >>)
       IN { PlanResult(env, PathFrom(env, << start >>, back)) }

(* ------------------- high-level search (spec 4.5, 4.6) ----------------- *)
\* the context of a freshly constructed Environment; the constructor leaves
\* m_task unset and m_constraints null, and setLowLevelContext writes both
\* before anything reads them
InitialContext ==
  [m_agentIdx |-> 0, m_task |-> 0, m_constraints |-> NoConstraints,
   m_lastGoalConstraint |-> -1]

HighLevelNode(sol, cons, tasks, nid) ==
  [solution |-> sol, constraints |-> cons, tasks |-> tasks,
   cost |-> SumOver([a \in DOMAIN sol |-> sol[a].cost], DOMAIN sol),
   lb |-> SumOver([a \in DOMAIN sol |-> sol[a].fmin], DOMAIN sol),
   id |-> nid]

RECURSIVE RootPlans(_, _, _, _)
\* root construction for a fresh assignment: plan agent i, i+1, ... under the
\* empty constraint set; stops at the first agent without a path
RootPlans(env, tasks, i, sol) ==
  IF i \notin Agents THEN { [ok |-> TRUE, solution |-> sol, env |-> env] }
  ELSE LET e == setLowLevelContext(env, i, NoConstraints, tasks[i])
           P == LowLevelPlans(e, State(0, startStates[i][1], startStates[i][2]))
       IN IF P = {} THEN { [ok |-> FALSE, solution |-> sol, env |-> e] }
          ELSE UNION { RootPlans(e, tasks, i + 1,
                          [a \in 0..i |-> IF a = i THEN p ELSE sol[a]]) : p \in P }

\* one child of the split of P: agent i gets the constraints c added and is
\* replanned; the branch is dropped when it has no path
ChildResults(env, P, i, c, nid) ==
  LET cons == ConstraintsAdd(P.constraints[i], c)
      e == setLowLevelContext(env, i, cons, P.tasks[i])
      plans == LowLevelPlans(e, State(0, startStates[i][1], startStates[i][2]))
  IN IF plans = {} THEN { [nodes |-> {}, env |-> e, id |-> nid] }
     ELSE { [nodes |-> { HighLevelNode([P.solution EXCEPT ![i] = p],
                                       [P.constraints EXCEPT ![i] = cons],
                                       P.tasks, nid) },
             env |-> e, id |-> nid + 1] : p \in plans }

\* the node the open list hands out: lowest cost, ties by lowest id
Top(ol) ==
  CHOOSE P \in ol : \A Q \in ol : P.cost < Q.cost \/ (P.cost = Q.cost /\ P.id <= Q.id)

\* a driver that draws only when the next unseen assignment costs strictly
\* less than the cheapest open node
PullWanted_Strict ==
  IF m_open = {} THEN FALSE
  ELSE IF open = {} THEN TRUE
  ELSE NextAssignmentCost(m_open) < Top(open).cost

\* the driver draws when the next unseen assignment costs no more than the
\* cheapest open node, or when the open list is empty
PullWanted ==
  IF m_open = {} THEN FALSE
  ELSE IF open = {} THEN TRUE
  ELSE NextAssignmentCost(m_open) <= Top(open).cost

\* C6 draws the next assignment and, when one comes back, builds its root
Draw ==
  /\ pc = "loop"
  /\ id < MaxNodes
  /\ ~drawsClosed
  /\ PullWanted
  /\ \E r \in nextTaskAssignment(m_cost, Agents, GoalIdx, m_numTaskAssignments,
                                 m_maxTaskAssignments, m_open) :
       /\ m_numTaskAssignments' = r.num
       /\ m_open' = r.heap
       /\ IF DOMAIN r.tasks = {}
            THEN /\ drawsClosed' = TRUE
                 /\ refused' = IF r.returnedEarly THEN refused + 1 ELSE refused
                 /\ UNCHANGED << m_ctx, open, id, drawn >>
            ELSE /\ drawn' = Append(drawn, [tasks |-> r.tasks, cost |-> r.cost])
                 /\ \E rp \in RootPlans(m_ctx, r.tasks, 0, << >>) :
                      /\ m_ctx' = rp.env
                      /\ IF rp.ok
                           THEN /\ open' = open \cup { HighLevelNode(rp.solution,
                                            [a \in Agents |-> NoConstraints], r.tasks, id) }
                                /\ id' = id + 1
                           ELSE UNCHANGED << open, id >>
                 /\ UNCHANGED << drawsClosed, refused >>
  /\ UNCHANGED << instanceVars, call, m_highLevelExpanded, pc, success, solution, solutionTasks >>

\* C5 may pop: no draw is pending
PopEnabled ==
  /\ pc = "loop"
  /\ id < MaxNodes
  /\ open # {}
  /\ (drawsClosed \/ ~PullWanted)

\* the popped node has no conflict: it is returned
ExpandSolution ==
  /\ PopEnabled
  /\ getFirstConflict(Top(open).solution).type = "None"
  /\ m_highLevelExpanded' = m_highLevelExpanded + 1
  /\ open' = open \ { Top(open) }
  /\ success' = TRUE
  /\ solution' = Top(open).solution
  /\ solutionTasks' = Top(open).tasks
  /\ pc' = "done"
  /\ UNCHANGED << instanceVars, call, m_numTaskAssignments, m_ctx, m_open, id,
                  drawsClosed, drawn, refused >>

\* the popped node has a conflict: it is split into two children
ExpandSplit ==
  /\ PopEnabled
  /\ LET P == Top(open)
         conflict == getFirstConflict(P.solution)
         cs == createConstraintsFromConflict(conflict)
     IN /\ conflict.type # "None"
        /\ \E r1 \in ChildResults(m_ctx, P, conflict.agent1, cs[conflict.agent1], id) :
             \E r2 \in ChildResults(r1.env, P, conflict.agent2, cs[conflict.agent2], r1.id) :
                /\ open' = ((open \ {P}) \cup r1.nodes) \cup r2.nodes
                /\ m_ctx' = r2.env
                /\ id' = r2.id
  /\ m_highLevelExpanded' = m_highLevelExpanded + 1
  /\ UNCHANGED << instanceVars, call, m_numTaskAssignments, m_open, pc, success,
                  solution, solutionTasks, drawsClosed, drawn, refused >>

\* open list empty and nothing left to draw: no solution
Fail ==
  /\ pc = "loop"
  /\ open = {}
  /\ (drawsClosed \/ m_open = {})
  /\ success' = FALSE
  /\ pc' = "done"
  /\ UNCHANGED << instanceVars, call, m_numTaskAssignments, m_highLevelExpanded, m_ctx,
                  m_open, open, id, solution, solutionTasks, drawsClosed, drawn,
                  refused >>

\* the model stops handing out node ids
Capped ==
  /\ pc = "loop"
  /\ id >= MaxNodes
  /\ pc' = "capped"
  /\ UNCHANGED << instanceVars, call, m_numTaskAssignments, m_highLevelExpanded, m_ctx,
                  m_open, open, id, success, solution, solutionTasks, drawsClosed,
                  drawn, refused >>

(* ----------------------------- instances ------------------------------- *)
\* the grids tried: a corridor and a grid with a second row
GridDims == { <<3, 1>>, <<3, 2>> }

\* the obstacle sets tried on a grid: none, or the middle cell of the second row
ObstacleChoices(dx, dy) == { {} } \cup { { <<1, y>> } : y \in 1..(dy - 1) }

\* the cells agents are started from: the free cells of the bottom row
StartCells(dx, dy, obs) == { c \in Grid(dx, dy) \ obs : c[2] = 0 }

\* the start vectors tried for n agents: every choice of start cells when
\* anyStart, else agent i is started at (i, 0)
StartChoices(n, dx, dy, obs, anyStart) ==
  IF anyStart THEN [0..(n - 1) -> StartCells(dx, dy, obs)]
  ELSE { [i \in 0..(n - 1) |-> <<i, 0>>] }

\* the state after main() has built the Environment for n agents, with the
\* grid, the options --groupSize and --maxTaskAssignments drawn from the sets
\* given; goals are drawn from the whole grid, obstacle cells included, and
\* starts and goals may repeat
Construct(n, dims, anyStart, groupSizes, budgets) ==
  \E dim \in dims :
    \E obs \in ObstacleChoices(dim[1], dim[2]) :
      \E starts \in StartChoices(n, dim[1], dim[2], obs, anyStart) :
        \E goals \in [0..(n - 1) -> Grid(dim[1], dim[2])] :
          \E g \in groupSizes :
            \E mx \in budgets :
              /\ m_dimx = dim[1]
              /\ m_dimy = dim[2]
              /\ m_obstacles = obs
              /\ startStates = starts
              /\ m_goals = goals
              /\ agentsPerGroup = g
              /\ m_maxTaskAssignments = mx
              /\ m_cost = CostMatrix(dim[1], dim[2], obs, starts, goals, g)
              /\ m_open \in SolveHeaps(CostMatrix(dim[1], dim[2], obs, starts, goals, g),
                                       0..(n - 1), 0..(n - 1))
              /\ m_numTaskAssignments = 0
              /\ m_highLevelExpanded = 0
              /\ m_ctx = InitialContext
              /\ open = {}
              /\ id = 0
              /\ success = FALSE
              /\ solution = << >>
              /\ solutionTasks = << >>
              /\ drawsClosed = FALSE
              /\ drawn = << >>
              /\ refused = 0
              /\ call = NoCall

\* default of the options --maxTaskAssignments and --groupSize
DefaultOption == 1000000000

(* ------------------ specification of the whole search ------------------ *)
\* three agents side by side on the bottom row of the 3x2 grid without
\* obstacles, default options; agent 1 is sent to (0,1), agent 2 stays where
\* it is, the goal of agent 0 is any cell
ConstructThree ==
  /\ Construct(3, { <<3, 2>> }, FALSE, {DefaultOption}, {DefaultOption})
  /\ m_obstacles = {}
  /\ m_goals[1] = <<0, 1>>
  /\ m_goals[2] = <<2, 0>>

\* search() is about to run, for two agents or for the three of
\* ConstructThree.  With two agents a group size of 2 or more behaves as the
\* default, and a budget of 1 or more as the default
Init ==
  /\ \/ Construct(2, GridDims, TRUE, {1, DefaultOption}, {0, DefaultOption})
     \/ ConstructThree
  /\ pc = "loop"

Next == Draw \/ ExpandSolution \/ ExpandSplit \/ Fail \/ Capped

Spec == Init /\ [][Next]_vars

(* --------------- specification of the enumeration alone ---------------- *)
\* one call of nextTaskAssignment by a caller that keeps drawing until the
\* enumerator is exhausted or MaxRefused calls were refused
EnumDraw ==
  /\ pc = "enum"
  /\ ~drawsClosed
  /\ refused < MaxRefused
  /\ \E r \in nextTaskAssignment(m_cost, Agents, GoalIdx, m_numTaskAssignments,
                                 m_maxTaskAssignments, m_open) :
       /\ m_numTaskAssignments' = r.num
       /\ m_open' = r.heap
       /\ drawn' = IF DOMAIN r.tasks = {} THEN drawn
                   ELSE Append(drawn, [tasks |-> r.tasks, cost |-> r.cost])
       /\ refused' = IF r.returnedEarly THEN refused + 1 ELSE refused
       /\ drawsClosed' = (DOMAIN r.tasks = {} /\ ~r.returnedEarly)
  /\ UNCHANGED << instanceVars, call, m_highLevelExpanded, m_ctx, open, id, pc,
                  success, solution, solutionTasks >>

\* three agents side by side in the corridor; only the enumerator runs
InitEnum ==
  /\ Construct(3, { <<3, 1>> }, FALSE, (1..MaxGroupSize) \cup {DefaultOption},
               (0..MaxBudget) \cup {DefaultOption})
  /\ pc = "enum"

NextEnum == EnumDraw

SpecEnum == InitEnum /\ [][NextEnum]_vars

(* ------------- specification of direct member-function calls ---------- *)
\* the vertex constraints passed to direct calls
VertexUniverse == { VertexConstraint(t, 1, 0) : t \in 0..MaxCallTime }

\* the edge constraints passed to Constraints::overlap
EdgeUniverse == { EdgeConstraint(0, 0, 0, 1, 0), EdgeConstraint(0, 1, 0, 0, 0) }

\* the edge constraints of the contexts getNeighbors is called under: a move
\* to the right, a wait and a move to the left
MoveUniverse ==
  { EdgeConstraint(0, 0, 0, 1, 0), EdgeConstraint(0, 0, 0, 0, 0),
    EdgeConstraint(0, 1, 0, 0, 0) }

\* the Constraints objects over the two universes, each set with every order
\* its iteration can take
IteratedConstraints ==
  UNION { [vertexConstraints : IterationOrders(V), edgeConstraints : IterationOrders(E)] :
          <<V, E>> \in (SUBSET VertexUniverse) \X (SUBSET EdgeUniverse) }

\* a.overlap(b) is called on two Constraints objects
CallOverlap ==
  /\ pc = "calls"
  /\ call = NoCall
  /\ \E c \in IteratedConstraints : \E other \in IteratedConstraints :
       call' = [op |-> "overlap", c |-> c, other |-> other,
                result |-> overlap(c, other)]
  /\ UNCHANGED << instanceVars, m_numTaskAssignments, m_highLevelExpanded, m_ctx,
                  m_open, open, id, pc, success, solution, solutionTasks,
                  drawsClosed, drawn, refused >>

\* the states getNeighbors is called for
CallStates ==
  { State(t, c[1], c[2]) : t \in 0..MaxCallTime, c \in Grid(m_dimx, m_dimy) }

\* after setLowLevelContext, getNeighbors(s, neighbors) is called with an
\* empty list
CallGetNeighbors ==
  /\ pc = "calls"
  /\ call = NoCall
  /\ \E V \in SUBSET VertexUniverse : \E E \in SUBSET MoveUniverse :
       \E s \in CallStates :
         LET env == setLowLevelContext(m_ctx, 0,
                       [vertexConstraints |-> V, edgeConstraints |-> E], 0)
         IN call' = [op |-> "getNeighbors", env |-> env, s |-> s, again |-> FALSE,
                     neighbors |-> getNeighborsInto(env, s, << >>)]
  /\ UNCHANGED << instanceVars, m_numTaskAssignments, m_highLevelExpanded, m_ctx,
                  m_open, open, id, pc, success, solution, solutionTasks,
                  drawsClosed, drawn, refused >>

\* getNeighbors is called once more under the same context, with the list
\* the first call has filled
CallGetNeighborsAgain ==
  /\ pc = "calls"
  /\ call.op = "getNeighbors"
  /\ ~call.again
  /\ \E s \in CallStates :
       call' = [call EXCEPT !.s = s, !.again = TRUE,
                            !.neighbors = getNeighborsInto(call.env, s, call.neighbors)]
  /\ UNCHANGED << instanceVars, m_numTaskAssignments, m_highLevelExpanded, m_ctx,
                  m_open, open, id, pc, success, solution, solutionTasks,
                  drawsClosed, drawn, refused >>

\* one agent on the grid with a second row; member functions are called
\* directly
InitCalls ==
  /\ Construct(1, { <<3, 2>> }, FALSE, {DefaultOption}, {DefaultOption})
  /\ pc = "calls"

NextCalls == CallOverlap \/ CallGetNeighbors \/ CallGetNeighborsAgain

SpecCalls == InitCalls /\ [][NextCalls]_vars

(* ------------------------------ properties ----------------------------- *)
\* the input passes the checks spec 7 lists: coordinates inside the grid (true
\* of every instance tried), no two agents started at the same cell, no goal
\* inside an obstacle
ValidInput ==
  /\ \A a, b \in Agents : a # b => startStates[a] # startStates[b]
  /\ \A j \in GoalIdx : m_goals[j] \notin m_obstacles

\* a joint plan has neither a vertex conflict at a time 0..makespan nor a
\* swap between two consecutive times
ConflictFree(sol) ==
  \A t \in 0..MaxT(sol) : VertexPairs(sol, t) = {} /\ EdgePairs(sol, t) = {}

\* search() has returned true
Succeeded == pc = "done" /\ success

\* C1: whenever search reports success on a valid input, the returned joint
\* plan has no vertex conflict and no edge conflict at any time step from 0 up
\* to and including the makespan.
C1_ReturnedPlanConflictFree == Succeeded /\ ValidInput => ConflictFree(solution)

\* total cost of a joint plan, as main() sums it
PlanCost(sol) == SumOver([a \in DOMAIN sol |-> sol[a].cost], DOMAIN sol)

\* the cells an agent at cell c can be at one step later
Moves(c) == {c} \cup Adjacent(m_dimx, m_dimy, m_obstacles, c)

\* joint positions q one step after joint positions p, without a vertex
\* conflict in q and without a swap between p and q; finished agents stay
JointMoves(p, fin) ==
  { q \in [Agents -> Grid(m_dimx, m_dimy)] :
      /\ \A a \in Agents : IF a \in fin THEN q[a] = p[a] ELSE q[a] \in Moves(p[a])
      /\ \A a, b \in Agents : a # b => q[a] # q[b]
      /\ \A a, b \in Agents : a # b => ~(q[a] = p[b] /\ q[b] = p[a]) }

\* the sets of agents that may be finished next: those finished already plus
\* any agents standing on their goal
FinishChoices(A, q, fin) ==
  { fin \cup S : S \in SUBSET { a \in Agents \ fin : q[a] = m_goals[A[a]] } }

\* joint search states one step after the joint search states of L; every
\* agent that is not finished pays one unit for the step
JointStep(A, L) ==
  UNION { UNION { { [pos |-> q, fin |-> f,
                     cost |-> st.cost + Cardinality(Agents \ st.fin)] :
                      f \in FinishChoices(A, q, st.fin) } :
                  q \in JointMoves(st.pos, st.fin) } : st \in L }

RECURSIVE JointLayer(_, _)
\* joint search states of time t under the assignment A
JointLayer(A, t) ==
  IF t = 0
    THEN IF \E a, b \in Agents : a # b /\ startStates[a] = startStates[b]
           THEN {}
           ELSE { [pos |-> startStates, fin |-> f, cost |-> 0] :
                    f \in FinishChoices(A, startStates, {}) }
    ELSE JointStep(A, JointLayer(A, t - 1))

\* costs of the conflict-free joint plans under A that end within the horizon
JointCosts(A) ==
  UNION { { st.cost : st \in { u \in JointLayer(A, t) : u.fin = Agents } } :
          t \in 0..MaxTime }

\* the eligible assignments: full, one goal per agent, eligible pairs only
EligibleAssignments == FeasibleAssignments(m_cost, Agents, GoalIdx, {}, {})

\* costs of all conflict-free joint plans over all eligible assignments
AllJointCosts == UNION { JointCosts(A) : A \in EligibleAssignments }

\* C2: when search succeeds on a valid input, the total cost it returns is the
\* minimum, over all eligible assignments, of the optimal conflict-free
\* joint-routing cost under the assignment.
C2_ReturnedCostOptimal ==
  Succeeded /\ ValidInput =>
    /\ AllJointCosts # {}
    /\ PlanCost(solution) = SetMin(AllJointCosts)

\* C3: the number of assignments drawn never exceeds maxTaskAssignments.
C3_DrawsWithinBudget == m_numTaskAssignments <= m_maxTaskAssignments

\* agent i and goal j lie in the same group of agentsPerGroup indices
SameGroup(i, j) == i \div agentsPerGroup = j \div agentsPerGroup

\* C4: the cost matrix holds no pair that crosses a group boundary, and no
\* assignment held by the enumerator or drawn from it gives an agent a goal
\* outside the agent's group.
C4_GroupIsolation ==
  /\ \A p \in DOMAIN m_cost : SameGroup(p[1], p[2])
  /\ \A N \in m_open : \A a \in DOMAIN N.assignment : SameGroup(a, N.assignment[a])
  /\ \A k \in DOMAIN drawn : \A a \in DOMAIN drawn[k].tasks :
        SameGroup(a, drawn[k].tasks[a])

\* sum of the grid distances of an assignment, eligible or not
DistanceSum(A) ==
  SumOver([a \in Agents |-> HeuristicValue(m_dimx, m_dimy, m_obstacles,
                                             startStates[a], m_goals[A[a]])], Agents)

\* an assignment was drawn although one crossing a group boundary is cheaper
C4_Witness ==
  /\ Len(drawn) >= 1
  /\ \E A \in [Agents -> GoalIdx] :
       /\ \A a, b \in Agents : a # b => A[a] # A[b]
       /\ \E a \in Agents : ~SameGroup(a, A[a])
       /\ DistanceSum(A) < drawn[1].cost

\* the last state of a plan
LastState(plan) == plan.states[Len(plan.states)]

\* the vertex constraints of c at the cell g
ConstraintsAtCell(c, g) ==
  { vc \in c.vertexConstraints : vc.x = g[1] /\ vc.y = g[2] }

\* C5: in every plan of every open node the final state is at the cell of the
\* agent's goal and later than every vertex constraint of the agent at that
\* cell; the bound left in the Environment is the one of the constraint set
\* and task of the latest low-level call alone.
C5_GoalTermination ==
  /\ \A N \in open : \A a \in Agents :
       /\ <<LastState(N.solution[a]).x, LastState(N.solution[a]).y>> = m_goals[N.tasks[a]]
       /\ \A vc \in ConstraintsAtCell(N.constraints[a], m_goals[N.tasks[a]]) :
             LastState(N.solution[a]).time > vc.time
  /\ drawn # << >> =>
       \/ /\ ConstraintsAtCell(m_ctx.m_constraints, m_goals[m_ctx.m_task]) = {}
          /\ m_ctx.m_lastGoalConstraint = -1
       \/ /\ \E vc \in ConstraintsAtCell(m_ctx.m_constraints, m_goals[m_ctx.m_task]) :
               vc.time = m_ctx.m_lastGoalConstraint
          /\ \A vc \in ConstraintsAtCell(m_ctx.m_constraints, m_goals[m_ctx.m_task]) :
               vc.time <= m_ctx.m_lastGoalConstraint

\* an open node in which an agent is constrained at its goal cell no earlier
\* than it could first arrive there, on a valid input
C5_Witness ==
  /\ ValidInput
  /\ \E N \in open : \E a \in Agents :
       \E vc \in ConstraintsAtCell(N.constraints[a], m_goals[N.tasks[a]]) :
          vc.time >= HeuristicValue(m_dimx, m_dimy, m_obstacles,
                                    startStates[a], m_goals[N.tasks[a]])

\* C6: in every open node no state of an agent's plan, the start state
\* included, is forbidden by a vertex constraint of the agent, and no
\* transition between consecutive states by an edge constraint of the agent.
C6_ConstraintSatisfaction ==
  \A N \in open : \A a \in Agents :
    LET st == N.solution[a].states
    IN /\ \A k \in DOMAIN st :
            VertexConstraint(st[k].time, st[k].x, st[k].y)
               \notin N.constraints[a].vertexConstraints
       /\ \A k \in 1..(Len(st) - 1) :
            EdgeConstraint(st[k].time, st[k].x, st[k].y, st[k + 1].x, st[k + 1].y)
               \notin N.constraints[a].edgeConstraints

\* C7: the costs of the assignments drawn are non-decreasing in the order of
\* the draws.
C7_NonDecreasingCosts ==
  \A k \in 1..(Len(drawn) - 1) : drawn[k].cost <= drawn[k + 1].cost

\* three draws of which the last costs strictly more than the first
C7_Witness == Len(drawn) >= 3 /\ drawn[1].cost < drawn[3].cost

\* the assignments a heap node stands for
NodeSpace(N) == FeasibleAssignments(m_cost, Agents, GoalIdx, N.I, N.O)

\* C8: no assignment is drawn twice, the heap nodes stand for pairwise
\* disjoint sets of assignments, and no assignment drawn is still in the set a
\* heap node stands for.
C8_AssignmentUniqueness ==
  /\ \A j, k \in DOMAIN drawn : j # k => drawn[j].tasks # drawn[k].tasks
  /\ \A N, M \in m_open : N # M => NodeSpace(N) \cap NodeSpace(M) = {}
  /\ \A N \in m_open : \A k \in DOMAIN drawn : drawn[k].tasks \notin NodeSpace(N)

\* the enumeration has run to exhaustion and returned all six assignments of
\* three agents to three goals
C8_Witness == pc = "enum" /\ drawsClosed /\ Len(drawn) = 6

\* the head-on swap in the 1x3 corridor
HeadOnSwap ==
  /\ m_dimx = 3 /\ m_dimy = 1 /\ m_obstacles = {}
  /\ startStates = [a \in 0..1 |-> IF a = 0 THEN <<0, 0>> ELSE <<2, 0>>]
  /\ m_goals = [j \in 0..1 |-> IF j = 0 THEN <<2, 0>> ELSE <<0, 0>>]

\* C9 as stated: on the head-on swap search ends with success = false and
\* returns no plan.
C9_HeadOnSwapFails ==
  HeadOnSwap /\ pc = "done" => ~success /\ solution = << >>

\* C9 amended: on the head-on swap with both goals eligible for both agents
\* search returns at its first expansion, with success = true, total cost 0,
\* each agent assigned the goal at its own start cell and a plan that is the
\* start state alone.
C9_HeadOnSwapSolvedByAssignment ==
  HeadOnSwap /\ agentsPerGroup >= 2 =>
    /\ pc # "capped"
    /\ pc = "loop" => m_highLevelExpanded = 0 /\ Len(drawn) <= 1 /\ ~drawsClosed
    /\ Len(drawn) = 1 => pc = "done" \/ Cardinality(open) = 1
    /\ pc = "done" =>
         /\ success
         /\ m_highLevelExpanded = 1
         /\ PlanCost(solution) = 0
         /\ solutionTasks = [a \in 0..1 |-> 1 - a]
         /\ \A a \in Agents :
              solution[a].states = << State(0, startStates[a][1], startStates[a][2]) >>

\* search has returned on the head-on swap with both goals eligible for both
C9_Witness == HeadOnSwap /\ agentsPerGroup >= 2 /\ pc = "done"

\* C10: an invalid input never reaches the search: no assignment is drawn, no
\* low-level plan is computed, no node is expanded.
C10_InvalidInputNeverSearched ==
  ~ValidInput =>
    /\ m_numTaskAssignments = 0
    /\ drawn = << >>
    /\ open = {}
    /\ m_highLevelExpanded = 0

\* the grid heuristic towards the cell g obeys the triangle inequality across
\* every move between free cells and is 0 at g
HeuristicConsistent(g) ==
  /\ \A c \in Grid(m_dimx, m_dimy) \ m_obstacles : \A n \in Moves(c) :
        HeuristicValue(m_dimx, m_dimy, m_obstacles, c, g)
          <= 1 + HeuristicValue(m_dimx, m_dimy, m_obstacles, n, g)
  /\ g \notin m_obstacles => HeuristicValue(m_dimx, m_dimy, m_obstacles, g, g) = 0

\* the state sequence is a path from the start cell of agent a at time 0 that
\* moves by one of the five actions and keeps every constraint of cons
SatisfyingPath(a, st, cons) ==
  /\ st[1] = State(0, startStates[a][1], startStates[a][2])
  /\ \A k \in DOMAIN st :
       /\ st[k].time = k - 1
       /\ VertexConstraint(st[k].time, st[k].x, st[k].y) \notin cons.vertexConstraints
  /\ \A k \in 1..(Len(st) - 1) :
       /\ <<st[k + 1].x, st[k + 1].y>> \in Moves(<<st[k].x, st[k].y>>)
       /\ EdgeConstraint(st[k].time, st[k].x, st[k].y, st[k + 1].x, st[k + 1].y)
            \notin cons.edgeConstraints

RECURSIVE SatisfyingCells(_, _, _)
\* the cells at which a path of agent a that keeps every constraint of cons,
\* the start state included, can be at time t
SatisfyingCells(a, cons, t) ==
  IF t = 0
    THEN { c \in { startStates[a] } :
             VertexConstraint(0, c[1], c[2]) \notin cons.vertexConstraints }
    ELSE LET before == SatisfyingCells(a, cons, t - 1)
         IN { n \in Grid(m_dimx, m_dimy) :
                /\ VertexConstraint(t, n[1], n[2]) \notin cons.vertexConstraints
                /\ \E c \in before :
                     /\ n \in Moves(c)
                     /\ EdgeConstraint(t - 1, c[1], c[2], n[1], n[2])
                          \notin cons.edgeConstraints }

\* the costs up to the horizon of the paths of agent a to the cell g that keep
\* every constraint of cons and the goal-time condition
SatisfyingCosts(a, cons, g) ==
  { t \in 0..MaxTime :
      /\ g \in SatisfyingCells(a, cons, t)
      /\ \A vc \in ConstraintsAtCell(cons, g) : t > vc.time }

\* C11: for every plan of every open node cost >= fmin and cost = fmin, the
\* heuristic towards the agent's goal is consistent and never above the cost
\* that remains along the plan, and the plan is a minimum-cost path among the
\* paths that keep the agent's constraints and the goal-time condition.
C11_LowLevelAdmissible ==
  \A N \in open : \A a \in Agents :
    LET p == N.solution[a]
        g == m_goals[N.tasks[a]]
    IN /\ p.cost >= p.fmin
       /\ p.cost = p.fmin
       /\ HeuristicConsistent(g)
       /\ \A k \in DOMAIN p.states :
            HeuristicValue(m_dimx, m_dimy, m_obstacles,
                           <<p.states[k].x, p.states[k].y>>, g)
              <= p.cost - p.states[k].time
       /\ SatisfyingPath(a, p.states, N.constraints[a])
       /\ p.cost = SetMin(SatisfyingCosts(a, N.constraints[a], g))

\* the cell of agent a at time t in a joint plan; an agent whose plan has
\* ended is parked on its last cell
CellAt(sol, a, t) ==
  LET st == sol[a].states
  IN IF t + 1 <= Len(st) THEN <<st[t + 1].x, st[t + 1].y>>
     ELSE <<st[Len(st)].x, st[Len(st)].y>>

\* the agent pairs (a, b), a < b, on one cell at time t
VertexConflictsAt(sol, t) ==
  { p \in (DOMAIN sol) \X (DOMAIN sol) :
      p[1] < p[2] /\ CellAt(sol, p[1], t) = CellAt(sol, p[2], t) }

\* the agent pairs (a, b), a < b, that swap cells between t and t + 1
EdgeConflictsAt(sol, t) ==
  { p \in (DOMAIN sol) \X (DOMAIN sol) :
      /\ p[1] < p[2]
      /\ CellAt(sol, p[1], t) = CellAt(sol, p[2], t + 1)
      /\ CellAt(sol, p[1], t + 1) = CellAt(sol, p[2], t) }

\* the lexicographically smallest pair of a set of pairs
SmallestPair(S) ==
  CHOOSE p \in S : \A q \in S : p[1] < q[1] \/ (p[1] = q[1] /\ p[2] <= q[2])

\* the times, from 0 up to and including the makespan, at which a joint plan
\* has a conflict
TimesOfConflict(sol) ==
  { t \in 0..SetMax({0} \cup { Len(sol[a].states) - 1 : a \in DOMAIN sol }) :
      VertexConflictsAt(sol, t) # {} \/ EdgeConflictsAt(sol, t) # {} }

\* r is the first conflict of the joint plan: smallest time, vertex before
\* edge, smallest agent pair; or r reports none and the plan has none
IsFirstConflict(sol, r) ==
  IF TimesOfConflict(sol) = {} THEN r.type = "None"
  ELSE LET t == SetMin(TimesOfConflict(sol))
       IN IF VertexConflictsAt(sol, t) # {}
            THEN LET p == SmallestPair(VertexConflictsAt(sol, t))
                 IN /\ r.type = "Vertex"
                    /\ r.time = t
                    /\ <<r.agent1, r.agent2>> = p
                    /\ <<r.x1, r.y1>> = CellAt(sol, p[1], t)
            ELSE LET p == SmallestPair(EdgeConflictsAt(sol, t))
                 IN /\ r.type = "Edge"
                    /\ r.time = t
                    /\ <<r.agent1, r.agent2>> = p
                    /\ <<r.x1, r.y1>> = CellAt(sol, p[1], t)
                    /\ <<r.x2, r.y2>> = CellAt(sol, p[1], t + 1)

\* C12: for the joint plan of every open node getFirstConflict reports the
\* conflict of smallest time, a vertex conflict before an edge conflict of
\* that time, the smallest agent pair among those; it reports none only when
\* the plan has no conflict at any time up to the makespan.
C12_FirstConflictReported ==
  \A N \in open : IsFirstConflict(N.solution, getFirstConflict(N.solution))

\* a step of the high-level search that splits the node popped
SplitStep ==
  /\ pc = "loop"
  /\ pc' = "loop"
  /\ m_highLevelExpanded' = m_highLevelExpanded + 1

\* the nodes a step inserts into the open list
Inserted == open' \ open

\* the constraint the claim gives agent a for the conflict c
SplitConstraint(c, a) ==
  IF c.type = "Vertex"
    THEN [vertexConstraints |-> { [time |-> c.time, x |-> c.x1, y |-> c.y1] },
          edgeConstraints |-> {}]
  ELSE IF a = c.agent1
    THEN [vertexConstraints |-> {},
          edgeConstraints |-> { [time |-> c.time, x1 |-> c.x1, y1 |-> c.y1,
                                 x2 |-> c.x2, y2 |-> c.y2] }]
    ELSE [vertexConstraints |-> {},
          edgeConstraints |-> { [time |-> c.time, x1 |-> c.x2, y1 |-> c.y2,
                                 x2 |-> c.x1, y2 |-> c.y1] }]

\* N is the child of P in which agent a, and no other agent, received the
\* constraint of the conflict c and was replanned
ChildOf(N, P, c, a) ==
  /\ N.tasks = P.tasks
  /\ \A b \in Agents \ {a} :
       /\ N.constraints[b] = P.constraints[b]
       /\ N.solution[b] = P.solution[b]
  /\ N.constraints[a].vertexConstraints =
       P.constraints[a].vertexConstraints \cup SplitConstraint(c, a).vertexConstraints
  /\ N.constraints[a].edgeConstraints =
       P.constraints[a].edgeConstraints \cup SplitConstraint(c, a).edgeConstraints

\* what C13 says of one split
SplitYieldsTwoChildren ==
  SplitStep =>
    LET P == Top(open)
        c == getFirstConflict(P.solution)
    IN /\ c.type \in {"Vertex", "Edge"}
       /\ c.agent1 # c.agent2
       /\ DOMAIN createConstraintsFromConflict(c) = {c.agent1, c.agent2}
       /\ \A a \in {c.agent1, c.agent2} :
            createConstraintsFromConflict(c)[a] = SplitConstraint(c, a)
       /\ Cardinality(Inserted) <= 2
       /\ \A N \in Inserted : ChildOf(N, P, c, c.agent1) \/ ChildOf(N, P, c, c.agent2)
       /\ \A N, M \in Inserted :
            N.id < M.id => ChildOf(N, P, c, c.agent1) /\ ChildOf(M, P, c, c.agent2)

\* C13: a split hands out exactly two constraint sets, one for each agent of
\* the conflict: the same vertex constraint for both agents of a vertex
\* conflict, the edge constraint for the first and the reversed edge
\* constraint for the second agent of an edge conflict; every child inserted
\* adds the constraint to that one agent, leaves the constraints and the plan
\* of every other agent as they are in the parent, and there is at most one
\* child for each of the two agents.
C13_SplitConstrainsOneAgent == [][SplitYieldsTwoChildren]_vars

\* an open node below a vertex split and an edge split
C13_Witness ==
  \E N \in open :
    /\ \E a \in Agents : N.constraints[a].edgeConstraints # {}
    /\ \E a \in Agents : N.constraints[a].vertexConstraints # {}

\* number of constraints of a Constraints object
NumConstraints(c) == Cardinality(c.vertexConstraints) + Cardinality(c.edgeConstraints)

\* what C14 says of one split
ChildStrictlyExtends ==
  SplitStep =>
    \A N \in Inserted :
      \E a \in Agents :
        /\ \A b \in Agents \ {a} : N.constraints[b] = Top(open).constraints[b]
        /\ Top(open).constraints[a].vertexConstraints \subseteq N.constraints[a].vertexConstraints
        /\ Top(open).constraints[a].edgeConstraints \subseteq N.constraints[a].edgeConstraints
        /\ NumConstraints(N.constraints[a]) = NumConstraints(Top(open).constraints[a]) + 1

\* C14: in every child a split inserts exactly one agent's constraint set has
\* gained exactly one constraint that the set did not hold in the parent;
\* every constraint of the parent is kept and the sets of the other agents are
\* those of the parent.
C14_ChildExtendsParent == [][ChildStrictlyExtends]_vars

\* the elements of an iteration order
Elements(q) == { q[k] : k \in DOMAIN q }

\* C15: overlap returns true exactly when the two objects share a vertex
\* constraint or an edge constraint, whatever the order in which their sets
\* are iterated.
C15_OverlapIsIntersection ==
  call.op = "overlap" =>
    (call.result <=>
       \/ Elements(call.c.vertexConstraints) \cap Elements(call.other.vertexConstraints) # {}
       \/ Elements(call.c.edgeConstraints) \cap Elements(call.other.edgeConstraints) # {})

\* the cell an action leads to from the cell (x, y)
Target(action, x, y) ==
  CASE action = "Wait"  -> <<x, y>>
    [] action = "Left"  -> <<x - 1, y>>
    [] action = "Right" -> <<x + 1, y>>
    [] action = "Up"    -> <<x, y + 1>>
    [] action = "Down"  -> <<x, y - 1>>

\* the action leads from s to a successor that is inside the grid, not an
\* obstacle, not forbidden by a vertex constraint at time s.time + 1, by a
\* move that no edge constraint forbids
ValidSuccessor(cons, s, action) ==
  LET n == Target(action, s.x, s.y)
  IN /\ n[1] \in 0..(m_dimx - 1)
     /\ n[2] \in 0..(m_dimy - 1)
     /\ n \notin m_obstacles
     /\ [time |-> s.time + 1, x |-> n[1], y |-> n[2]] \notin cons.vertexConstraints
     /\ [time |-> s.time, x1 |-> s.x, y1 |-> s.y, x2 |-> n[1], y2 |-> n[2]]
          \notin cons.edgeConstraints

\* C16: the list getNeighbors leaves holds, once each, the successor of every
\* action whose successor is valid, at time s.time + 1 and with cost 1, and
\* nothing else.
C16_NeighborsExact ==
  call.op = "getNeighbors" =>
    LET nb == call.neighbors
        cons == call.env.m_constraints
    IN /\ \A action \in {"Wait", "Left", "Right", "Up", "Down"} :
            ValidSuccessor(cons, call.s, action) <=>
              \E k \in DOMAIN nb :
                 /\ nb[k].action = action
                 /\ nb[k].cost = 1
                 /\ nb[k].state.time = call.s.time + 1
                 /\ <<nb[k].state.x, nb[k].state.y>> = Target(action, call.s.x, call.s.y)
       /\ \A k \in DOMAIN nb :
            /\ nb[k].action \in {"Wait", "Left", "Right", "Up", "Down"}
            /\ nb[k].cost = 1
            /\ nb[k].state.time = call.s.time + 1
            /\ <<nb[k].state.x, nb[k].state.y>> = Target(nb[k].action, call.s.x, call.s.y)
       /\ \A j, k \in DOMAIN nb : j # k => nb[j].action # nb[k].action

\* a call on a list that held successors before; it returns some successor,
\* refuses one for a vertex constraint alone and refuses the wait for an edge
\* constraint alone
C16_Witness ==
  /\ call.op = "getNeighbors"
  /\ call.again
  /\ call.neighbors # << >>
  /\ \E action \in {"Left", "Right", "Up", "Down"} :
       /\ ~ValidSuccessor(call.env.m_constraints, call.s, action)
       /\ ValidSuccessor([call.env.m_constraints EXCEPT !.vertexConstraints = {}],
                         call.s, action)
  /\ ~ValidSuccessor(call.env.m_constraints, call.s, "Wait")
  /\ ValidSuccessor([call.env.m_constraints EXCEPT !.edgeConstraints = {}],
                    call.s, "Wait")

\* a step of the high-level search that pops a node
PopStep == m_highLevelExpanded' = m_highLevelExpanded + 1

\* neither the budget nor the enumerator is exhausted
DrawsLeft ==
  /\ ~drawsClosed
  /\ m_open # {}
  /\ ~(m_numTaskAssignments > m_maxTaskAssignments)

\* the assignment A has been drawn
Drawn(A) == \E k \in DOMAIN drawn : drawn[k].tasks = A

\* what C17 says of one step: at a pop every assignment that costs no more
\* than the node popped has been drawn; a draw of an assignment of finite
\* cost inserts its root
PopAfterCheaperDraws ==
  /\ PopStep /\ DrawsLeft =>
       /\ \A A \in EligibleAssignments :
            AssignmentCost(m_cost, A) <= Top(open).cost => Drawn(A)
       /\ \A A \in EligibleAssignments :
            ~Drawn(A) => AssignmentCost(m_cost, A) > Top(open).cost
  /\ Len(drawn') = Len(drawn) + 1 /\ drawn'[Len(drawn')].cost < Infinity =>
       \E N \in open' \ open :
          /\ N.tasks = drawn'[Len(drawn')].tasks
          /\ \A a \in Agents : N.constraints[a] = NoConstraints

SameConflict(c, d) ==
  /\ c.type = d.type
  /\ c.type # "None" =>
       /\ c.time = d.time
       /\ c.agent1 = d.agent1
       /\ c.agent2 = d.agent2
       /\ c.x1 = d.x1
       /\ c.y1 = d.y1
       /\ c.type = "Edge" => c.x2 = d.x2 /\ c.y2 = d.y2

\* the plan of agent a in the joint plan does what the constraint agent a is
\* given for the conflict c forbids: it is on the cell of a vertex conflict at
\* the time of the conflict (parked there when its plan has ended), or makes
\* the move of an edge conflict
PlanDoesForbidden(sol, c, a) ==
  IF c.type = "Vertex"
    THEN CellAt(sol, a, c.time) = <<c.x1, c.y1>>
  ELSE IF a = c.agent1
    THEN /\ CellAt(sol, a, c.time) = <<c.x1, c.y1>>
         /\ CellAt(sol, a, c.time + 1) = <<c.x2, c.y2>>
    ELSE /\ CellAt(sol, a, c.time) = <<c.x2, c.y2>>
         /\ CellAt(sol, a, c.time + 1) = <<c.x1, c.y1>>

\* what C18 says of one split
SplitMakesProgress ==
  SplitStep =>
    LET P == Top(open)
        c == getFirstConflict(P.solution)
    IN /\ \A a \in {c.agent1, c.agent2} : PlanDoesForbidden(P.solution, c, a)
       /\ \A N \in Inserted :
            /\ \E a \in {c.agent1, c.agent2} :
                 /\ ChildOf(N, P, c, a)
                 /\ N.solution[a].states # P.solution[a].states
            /\ ~SameConflict(getFirstConflict(N.solution), c)

\* C18: for the conflict of every node that is split, the constraint each of
\* the two agents is given forbids what the agent's plan in that node does;
\* in every child inserted the path of the constrained agent differs from
\* its path in the parent and the first conflict of the child is not the
\* conflict that was split.
C18_SplitMakesProgress == [][SplitMakesProgress]_vars

\* the tasks vector of the k-th draw after tasks.resize(solution.size()): its
\* valid indices
TaskIndices(k) == 0..(Cardinality(DOMAIN drawn[k].tasks) - 1)

====
